---- MODULE Spec2Model ----
(***************************************************************************)
(* State-machine model of the chatraj RAG chat server (app_fastapi.py and  *)
(* flask_api.py on top of RAGChain in generate.py) and of its Streamlit    *)
(* client.                                                                 *)
(*                                                                         *)
(* The third-party collaborators (document loaders, the embedder, the      *)
(* Chroma collection, the language model, the LangChain retrieval chain)   *)
(* are the environment: every call into them either succeeds or raises.    *)
(* The prompt construction of initialize_chain is treated the same way.    *)
(***************************************************************************)
EXTENDS Integers, Sequences, FiniteSets, TLC

VARIABLES
    surface,         \* which server process runs: "fastapi" or "flask"
    data_dir,        \* the files of the shared upload directory "Data"
    chroma_db,       \* the chunks of collection "my_collection" in ./chroma_db
    rag_chains,      \* session id -> RAGChain instance
    chat_histories,  \* session id -> server-side chat history
    inits,           \* the /initialize/ requests served so far, in order
    asks,            \* the /stream/ requests, in the order they were issued
    client,          \* the Streamlit client's st.session_state and script position
    config,          \* the parsed config/config.yaml the server was started with
    rewrites,        \* the RAGChain.contextualize_question calls made so far, in order
    instance,        \* a RAGChain constructed outside the server, and the calls on it
    model_provider,  \* a ModelProvider: its current_provider and current_model
    crawler          \* one run of web_crawler.get_all_pages

\* The objects used without the server.
library == <<instance, model_provider, crawler>>

vars == <<surface, data_dir, chroma_db, rag_chains, chat_histories, inits, asks, client,
          config, rewrites, library>>

-----------------------------------------------------------------------------
(* Bounds *)

MaxInits == 2      \* /initialize/ requests in SpecInit
MaxSessions == 1   \* /initialize/ requests in the specifications with asks
MaxAsks == 1       \* /stream/ requests in Spec
MaxSeries == 2     \* /stream/ requests in SpecSeries and SpecClient
MaxChunks == 2     \* chunks one chain stream emits before it ends or faults
MaxRewrites == 2   \* contextualize_question calls in SpecChain
MaxTurns == 1      \* update_chat_history calls per chain in SpecChain
MaxCalls == 2      \* method calls on the RAGChain of SpecInstance
MaxDocs == 2       \* chunks one retrieval returns in SpecInstance
MaxSwitches == 2   \* switch_provider calls in SpecProvider
MaxPages == 3      \* the largest max_pages a crawl is given in SpecCrawl

-----------------------------------------------------------------------------
(* Inputs *)

Surfaces == {"fastapi", "flask"}

NoFilePart == "<no file part>"
Files == {"a.pdf", "b.docx", "n.txt"}

NoSessionId == 0
SessionIds == 1..(MaxInits + 1)

Questions == {"q1", "q2"}
Fragments == {"a", "b"}
Errors == {"boom"}

user(text) == [role |-> "user", content |-> text]
assistant(text) == [role |-> "assistant", content |-> text]

\* config.yaml: the names under `providers`, and the valid configurations,
\* whose `default_provider` is one of the `providers`.
Providers == {"openai_gpt4", "anthropic"}
Configs == {c \in [default_provider : Providers, providers : SUBSET Providers] :
               c.default_provider \in c.providers}

\* The chat_history form values a caller of /stream/ puts in the request.
CallerHistories == {<<>>, <<"q1", "a">>}

\* What the retrieval chain streams: a chunk is a dict that carries an
\* "answer" key or does not (the input and context chunks).
ChainChunks == {[answer |-> f] : f \in Fragments} \cup {[context |-> "docs"]}

-----------------------------------------------------------------------------
(* Text: a string is the sequence of its non-empty pieces. *)

Concat(parts) == SelectSeq(parts, LAMBDA p : p # "")

RECURSIVE Flatten(_)
Flatten(seqs) ==
    IF seqs = <<>> THEN <<>> ELSE Head(seqs) \o Flatten(Tail(seqs))

\* dict.get(key, default)
Get(chunk, key, default) == IF key \in DOMAIN chunk THEN chunk[key] ELSE default

-----------------------------------------------------------------------------
(* Ingestion *)

EndsWith(filename, ext) ==
    \/ ext = ".pdf" /\ filename \in {"a.pdf"}
    \/ ext = ".docx" /\ filename \in {"b.docx"}

\* DocumentLoader.load_documents: every .pdf and .docx of the folder, the
\* other files skipped.
load_documents(folder) ==
    {f \in folder : EndsWith(f, ".pdf") \/ EndsWith(f, ".docx")}

\* TextSplitter.split_documents: one chunk per document here, named after it.
split_documents(documents) == documents

\* os.path.join(data_dir, file.filename) opened "wb": the upload lands in the
\* shared directory under its own name.
SaveUpload(dir, file) == dir \cup {file}

\* requests.files lookup of flask_api.py; FastAPI's required UploadFile.
NoFileStatus(s) == IF s = "flask" THEN 400 ELSE 422

\* The steps of RAGChain.initialize_chain that call a collaborator, in order;
\* "none" is the run in which no step raises.
InitStages == <<"save", "model_provider", "load", "embed", "index",
                "switch_provider", "prompts", "none">>

StageNo(stage) == CHOOSE i \in 1..Len(InitStages) : InitStages[i] = stage

Reached(fault, stage) == StageNo(fault) > StageNo(stage)

\* An id that is not drawn afresh: the one the first request was given.
uuid4Reused ==
    LET given == {inits[i].session_id : i \in DOMAIN inits} \ {NoSessionId}
    IN  IF given = {} THEN 1 + Len(inits) ELSE CHOOSE s \in given : TRUE

\* uuid4(): an id no earlier request was given.
uuid4 == 1 + Len(SelectSeq(inits, LAMBDA r : r.session_id # NoSessionId))

\* ModelProvider.switch_provider: the model of the provider of that name in
\* the configuration, or ValueError when the configuration has none.
SwitchRaises(cfg, provider_name) == provider_name \notin cfg.providers

switch_provider(cfg, provider_name) == provider_name

\* self.model_provider.switch_provider('openai_gpt4')
ChainProvider == "openai_gpt4"

NewRAGChain == [retriever |-> "my_collection", chat_history |-> <<>>,
                llm |-> "openai_gpt4"]

\* VectorStoreProvider.create_vector_store: Chroma.from_documents adds the
\* splits to the collection named by (collection_name, persist_directory),
\* which generate.py fixes to ("my_collection", "./chroma_db") for every chain.
create_vector_store(collection, splits) == collection \cup splits

\* Chroma rejects an upsert of zero documents.
IndexRaises(splits) == splits = {}

\* The retriever of a chain searches the collection the chain is bound to.
Retrievable(chain) ==
    IF chain.retriever = "my_collection" THEN chroma_db ELSE {}

-----------------------------------------------------------------------------
(* The objects used without the server, as constructed *)

\* RAGChain.__init__: the attributes it creates, all still None; the prompts
\* are not among them. `calls` lists the method calls made on the instance.
NewInstance ==
    [attrs |-> [a \in {"retriever", "llm", "prompt"} |-> "None"],
     initialized |-> FALSE, calls |-> <<>>]

\* ModelProvider.__init__ before it loads the default provider.
NoModel == [provider |-> "None", model |-> "None"]

NewModelProvider ==
    [current_provider |-> "None", current_model |-> NoModel, switches |-> <<>>]

\* get_all_pages not called yet.
NoCrawl == [pc |-> "idle"]

-----------------------------------------------------------------------------
(* State *)

InitRecord(file, sid, status, returned, stage) ==
    [file |-> file, session_id |-> sid, status |-> status,
     returned |-> returned, stage |-> stage]

Started ==
    /\ surface \in Surfaces
    /\ data_dir = {}
    /\ chroma_db = {}
    /\ rag_chains = <<>>
    /\ chat_histories = <<>>
    /\ inits = <<>>
    /\ asks = <<>>
    /\ client = [session_id |-> NoSessionId, chat_history |-> <<>>,
                 pc |-> "idle", ask |-> 0]
    /\ rewrites = <<>>
    /\ instance = NewInstance
    /\ model_provider = NewModelProvider
    /\ crawler = NoCrawl

\* The server started with the configuration whose default provider is the
\* one generate.py names.
Init ==
    /\ Started
    /\ config = [default_provider |-> "openai_gpt4", providers |-> Providers]

\* The server started with any valid configuration.
InitConfig ==
    /\ Started
    /\ config \in Configs

-----------------------------------------------------------------------------
(* POST /initialize/ *)

\* The request without a file part never reaches uuid4().
RejectUpload ==
    /\ inits' = Append(inits, InitRecord(NoFilePart, NoSessionId,
                                         NoFileStatus(surface), NoSessionId, "request"))
    /\ UNCHANGED <<surface, config, rewrites, library, data_dir, chroma_db, rag_chains, chat_histories>>

\* rag_chains[session_id] = rag_chain_instance
BindChain(table, sid, chain) == (sid :> chain) @@ table

\* chat_histories[session_id] = []
BindHistory(table, sid) == (sid :> <<>>) @@ table

\* The binding moved in front of initialize_chain(...).
BindsEarly(fault) == Reached(fault, "save")

\* Lines 40-41 of app_fastapi.py (40-41 of flask_api.py) run only after
\* RAGChain(...) and initialize_chain(...) have returned.
Binds(fault) == fault = "none"

\* The handler from uuid4() to its return; `fault` names the step that
\* raises ("none": no step does), `part` what a failing index step had
\* already written to the collection.
initialize_chain(file, fault, part) ==
    LET session_id == uuid4
        dir == IF Reached(fault, "save") THEN SaveUpload(data_dir, file) ELSE data_dir
        documents == load_documents(dir)
        splits == split_documents(documents)
    IN  /\ Reached(fault, "index") => ~IndexRaises(splits)
        /\ Reached(fault, "model_provider") => ~SwitchRaises(config, config.default_provider)
        /\ Reached(fault, "switch_provider") => ~SwitchRaises(config, ChainProvider)
        /\ part \subseteq splits
        /\ fault # "index" => part = {}
        /\ data_dir' = dir
        /\ chroma_db' = IF Reached(fault, "index")
                        THEN create_vector_store(chroma_db, splits)
                        ELSE chroma_db \cup part
        /\ rag_chains' = IF Binds(fault)
                         THEN BindChain(rag_chains, session_id,
                                        [NewRAGChain EXCEPT
                                            !.llm = switch_provider(config, ChainProvider)])
                         ELSE rag_chains
        /\ chat_histories' = IF Binds(fault)
                             THEN BindHistory(chat_histories, session_id)
                             ELSE chat_histories
        /\ inits' = Append(inits,
                       IF fault = "none"
                       THEN InitRecord(file, session_id, 200, session_id, fault)
                       ELSE InitRecord(file, session_id, 500, NoSessionId, fault))
        /\ UNCHANGED <<surface, config, rewrites, library>>

InitializeRequest(file, fault, part) ==
    /\ IF file = NoFilePart
       THEN fault = "none" /\ part = {} /\ RejectUpload
       ELSE initialize_chain(file, fault, part)
    /\ UNCHANGED <<asks, client>>

\* flask_api.py under the threaded server, when no step raises: the handler
\* up to and including line 42. Its thread may be suspended there, the entry
\* of chat_histories not yet written and the response not yet returned.
StoreChain(file) ==
    LET session_id == uuid4
        dir == SaveUpload(data_dir, file)
        splits == split_documents(load_documents(dir))
    IN  /\ surface = "flask"
        /\ ~IndexRaises(splits)
        /\ ~SwitchRaises(config, config.default_provider)
        /\ ~SwitchRaises(config, ChainProvider)
        /\ data_dir' = dir
        /\ chroma_db' = create_vector_store(chroma_db, splits)
        /\ rag_chains' = BindChain(rag_chains, session_id,
                                   [NewRAGChain EXCEPT
                                       !.llm = switch_provider(config, ChainProvider)])
        /\ inits' = Append(inits, InitRecord(file, session_id, 200, NoSessionId, "store"))
        /\ UNCHANGED <<surface, config, rewrites, library, chat_histories, asks, client>>

\* Lines 43-45 of flask_api.py, when the thread runs again.
StoreHistory ==
    \E k \in DOMAIN inits :
        /\ inits[k].stage = "store"
        /\ chat_histories' = BindHistory(chat_histories, inits[k].session_id)
        /\ inits' = [inits EXCEPT ![k] = InitRecord(inits[k].file, inits[k].session_id,
                                                     200, inits[k].session_id, "none")]
        /\ UNCHANGED <<surface, config, rewrites, library, data_dir, chroma_db,
                       rag_chains, asks, client>>

StageNames == {InitStages[i] : i \in 1..Len(InitStages)}

NextInit ==
    \E file \in Files \cup {NoFilePart}, fault \in StageNames, part \in SUBSET Files :
        /\ Len(inits) < MaxInits
        /\ InitializeRequest(file, fault, part)

SpecInit == Init /\ [][NextInit]_vars

\* /initialize/ requests to a server started with any valid configuration.
SpecConfig == InitConfig /\ [][NextInit]_vars

-----------------------------------------------------------------------------
(* POST /stream/ *)

\* The lookup left out.
SessionKnownAlways(sid) == TRUE

\* `session_id not in rag_chains`; flask_api.py also refuses a missing one.
SessionKnown(sid) ==
    IF surface = "flask"
    THEN sid # NoSessionId /\ sid \in DOMAIN rag_chains
    ELSE sid \in DOMAIN rag_chains

\* flask_api.py returns (jsonify(...), 400); app_fastapi.py returns the dict,
\* which FastAPI sends with its default status.
NotFoundStatus(s) == IF s = "flask" THEN 400 ELSE 200

\* yield chunk_content + "\n"
Line(chunk_content) == Concat(<<chunk_content, "\n">>)

\* yield str(e): the marker left out.
ErrorFragmentBare(s, e) == IF s = "flask" THEN Concat(<<e, "\n">>) ELSE Concat(<<e>>)

\* yield f"Error: {str(e)}"  /  yield f"Error: {str(e)}\n"
ErrorFragment(s, e) ==
    IF s = "flask" THEN Concat(<<"Error: ", e, "\n">>) ELSE Concat(<<"Error: ", e>>)

Phases == {"start", "rewriting", "retrieving", "generating"}

NewAsk(sid, question, chat_history, known) ==
    [sid |-> sid, question |-> question, chat_history |-> chat_history,
     pc |-> IF known THEN "start" ELSE "rejected",
     status |-> IF known THEN 200 ELSE NotFoundStatus(surface),
     body |-> IF known THEN "stream" ELSE "error",
     chunks |-> <<>>, out |-> <<>>, failed_in |-> "", calls |-> {}, docs |-> {},
     reread |-> FALSE,
     concurrent |-> {j \in DOMAIN asks : asks[j].sid = sid /\ asks[j].pc \in Phases}]

\* The handler: the lookup, then the response object around the generator,
\* of which nothing has run yet.
stream_response(sid, question, chat_history) ==
    /\ asks' = Append(asks, NewAsk(sid, question, chat_history, SessionKnown(sid)))
    /\ UNCHANGED <<surface, config, rewrites, library, data_dir, chroma_db, rag_chains, chat_histories, inits, client>>

\* The collaborator a phase of the chain calls. create_history_aware_retriever
\* sends the input straight to the retriever when chat_history is empty.
CallOf(pc, chat_history) ==
    CASE pc = "rewriting"  -> IF chat_history = <<>> THEN {} ELSE {"rewrite"}
      [] pc = "retrieving" -> {"retrieve"}
      [] pc = "generating" -> {"generate"}
      [] OTHER -> {}

Advance(i, pc, ask) ==
    /\ asks' = [asks EXCEPT ![i] = [ask EXCEPT !.pc = pc]]
    /\ UNCHANGED <<surface, config, rewrites, library, data_dir, chroma_db, rag_chains, chat_histories, inits, client>>

\* run_with_chat_history() called in front of the try: its fault ends the
\* response with nothing yielded.
GenBuildOutsideTry(i) ==
    /\ asks[i].pc = "start"
    /\ Advance(i, "failed", [asks[i] EXCEPT !.failed_in = "start"])

\* rag_chain = rag_chain_instance.run_with_chat_history()
GenBuild(i) ==
    /\ asks[i].pc = "start"
    /\ Advance(i, "rewriting", asks[i])

\* The answer chain started on the rewriter's output, the retriever left out.
GenRewriteThenGenerate(i) ==
    /\ asks[i].pc = "rewriting"
    /\ Advance(i, "generating",
               [asks[i] EXCEPT !.calls = @ \cup CallOf("rewriting", asks[i].chat_history)])

\* The history-aware retriever's first half: the standalone question.
GenRewrite(i) ==
    /\ asks[i].pc = "rewriting"
    /\ Advance(i, "retrieving",
               [asks[i] EXCEPT !.calls = @ \cup CallOf("rewriting", asks[i].chat_history)])

\* Its second half: the retriever of the chain the handler looked up.
GenRetrieve(i) ==
    /\ asks[i].pc = "retrieving"
    /\ Advance(i, "generating",
               [asks[i] EXCEPT !.calls = @ \cup CallOf("retrieving", asks[i].chat_history),
                               !.docs = Retrievable(rag_chains[asks[i].sid])])

\* One turn of `for chunk in rag_chain.stream(...)`: the chain may hand over
\* a chunk without "answer" at any time, one with "answer" once it generates.
GenChunk(i, chunk) ==
    /\ asks[i].pc \in {"rewriting", "retrieving", "generating"}
    /\ "answer" \in DOMAIN chunk => asks[i].pc = "generating"
    /\ Len(asks[i].chunks) < MaxChunks
    /\ Advance(i, asks[i].pc,
               [asks[i] EXCEPT !.chunks = Append(@, chunk),
                               !.out = Append(@, Line(Get(chunk, "answer", ""))),
                               !.calls = IF "answer" \in DOMAIN chunk
                                         THEN @ \cup CallOf("generating", asks[i].chat_history)
                                         ELSE @])

\* The chain's stream is exhausted: the generator returns.
GenEnd(i) ==
    /\ asks[i].pc = "generating"
    /\ Advance(i, "completed",
               [asks[i] EXCEPT !.calls = @ \cup CallOf("generating", asks[i].chat_history)])

\* The generator without its except clause: the fault ends the stream.
GenFaultUncaught(i, e) ==
    /\ asks[i].pc \in Phases
    /\ Advance(i, "failed",
               [asks[i] EXCEPT !.failed_in = asks[i].pc,
                               !.calls = @ \cup CallOf(asks[i].pc, asks[i].chat_history)])

\* except Exception as e: the one handler around the whole generator body.
GenFault(i, e) ==
    /\ asks[i].pc \in Phases
    /\ Advance(i, "failed",
               [asks[i] EXCEPT !.out = Append(@, ErrorFragment(surface, e)),
                               !.failed_in = asks[i].pc,
                               !.calls = @ \cup CallOf(asks[i].pc, asks[i].chat_history)])

\* Where a generator stands once its body has returned.
Ended == {"completed", "failed"}

\* An iterable that calls generate_stream() afresh for every pass.
ReconsumeRestarts(i) ==
    /\ asks[i].pc \in Ended
    /\ ~asks[i].reread
    /\ Advance(i, "start", [asks[i] EXCEPT !.reread = TRUE])

\* A second pass over the generator object handed to the response: its frame
\* has returned, so the body does not run again and the pass ends at once.
Reconsume(i) ==
    /\ asks[i].pc \in Ended
    /\ ~asks[i].reread
    /\ Advance(i, asks[i].pc, [asks[i] EXCEPT !.reread = TRUE])

-----------------------------------------------------------------------------
(* A RAGChain used without the server (generate.py) *)

\* The attributes initialize_chain() assigns, in the order of its statements.
Assigned ==
    <<"retriever", "llm", "context_based_qa_prompt",
      "contextualize_question_prompt", "qa_prompt">>

\* initialize_chain() on the instance, of which the first n assignments are
\* made: a fault in a later statement leaves the earlier attributes assigned,
\* and the call has succeeded when all are.
InstanceInitialize(n) ==
    /\ ~instance.initialized
    /\ LET done == {Assigned[k] : k \in 1..n}
       IN  instance' = [instance EXCEPT
                          !.attrs = [a \in DOMAIN instance.attrs \cup done |->
                                       IF a \in done THEN "set" ELSE instance.attrs[a]],
                          !.initialized = (n = Len(Assigned))]
    /\ UNCHANGED <<surface, config, rewrites, model_provider, crawler, data_dir,
                   chroma_db, rag_chains, chat_histories, inits, asks, client>>

\* What reading self.<a> in a guard comes to: an attribute the object does not
\* have raises AttributeError, None is falsy. `or` stops at the first falsy
\* operand of `not`.
Reads(attrs, names) ==
    LET stops(k) == names[k] \notin DOMAIN attrs \/ attrs[names[k]] = "None"
        first == CHOOSE k \in DOMAIN names :
                     stops(k) /\ \A j \in 1..(k - 1) : ~stops(j)
    IN  IF \A k \in DOMAIN names : ~stops(k) THEN "passes"
        ELSE IF names[first] \notin DOMAIN attrs THEN "AttributeError"
        ELSE "ValueError"

\* all([...]) builds the whole list before it tests any element.
ReadsAll(attrs, names) ==
    IF \E k \in DOMAIN names : names[k] \notin DOMAIN attrs
    THEN "AttributeError"
    ELSE IF \E k \in DOMAIN names : attrs[names[k]] = "None"
         THEN "ValueError"
         ELSE "passes"

\* The guard at the head of each method.
GuardOf(method, attrs) ==
    CASE method = "contextualize_question" ->
            Reads(attrs, <<"contextualize_question_prompt", "llm">>)
      [] method = "run_with_chat_history" ->
            Reads(attrs, <<"contextualize_question_prompt", "llm", "retriever">>)
      [] method = "run" ->
            ReadsAll(attrs, <<"retriever", "context_based_qa_prompt", "llm">>)

\* What the body reads after the guard: run_with_chat_history() hands
\* self.qa_prompt to create_stuff_documents_chain.
BodyOf(method, attrs) ==
    IF method = "run_with_chat_history" /\ "qa_prompt" \notin DOMAIN attrs
    THEN "AttributeError"
    ELSE "returns"

Outcome(method, attrs) ==
    IF GuardOf(method, attrs) = "passes"
    THEN BodyOf(method, attrs)
    ELSE GuardOf(method, attrs)

\* The collaborators a method's body invokes: run_with_chat_history() only
\* assembles the chain.
Invokes(method) ==
    CASE method = "contextualize_question" -> {"llm"}
      [] method = "run_with_chat_history" -> {}
      [] method = "run" -> {"retriever", "llm"}

Methods == {"contextualize_question", "run_with_chat_history", "run"}

\* Document.page_content of the retrieved chunks, character by character.
PageContents == {<<"x">>, <<"y", " ", "z">>}

\* What the retriever hands over, best match first.
Ranked ==
    UNION {[1..n -> {[page_content |-> t] : t \in PageContents}] : n \in 0..MaxDocs}

\* sep.join(texts)
RECURSIVE join(_, _)
join(sep, texts) ==
    IF texts = <<>> THEN <<>>
    ELSE IF Len(texts) = 1 THEN Head(texts)
    ELSE Head(texts) \o sep \o join(sep, Tail(texts))

\* Every chunk text followed by the separator.
docs_to_strTrailing(documents) ==
    Flatten([k \in DOMAIN documents |-> documents[k].page_content \o <<" ">>])

\* " ".join([doc.page_content for doc in documents])
docs_to_str(documents) ==
    join(<<" ">>, [k \in DOMAIN documents |-> documents[k].page_content])

\* One call of a method on the instance. run() pipes what the retriever
\* returns through docs_to_str into the prompt's context.
InstanceCall(method, documents) ==
    /\ Len(instance.calls) < MaxCalls
    /\ method # "run" => documents = <<>>
    /\ LET outcome == Outcome(method, instance.attrs)
           ran == method = "run" /\ outcome = "returns"
       IN  instance' = [instance EXCEPT
                          !.calls = Append(@,
                              [method |-> method,
                               initialized |-> instance.initialized,
                               outcome |-> outcome,
                               invoked |-> IF outcome = "returns" THEN Invokes(method) ELSE {},
                               documents |-> IF ran THEN documents ELSE <<>>,
                               context |-> IF ran THEN docs_to_str(documents) ELSE <<>>])]
    /\ UNCHANGED <<surface, config, rewrites, model_provider, crawler, data_dir,
                   chroma_db, rag_chains, chat_histories, inits, asks, client>>

NextInstance ==
    \/ \E n \in 0..Len(Assigned) : InstanceInitialize(n)
    \/ \E method \in Methods, documents \in Ranked : InstanceCall(method, documents)

SpecInstance == Init /\ [][NextInstance]_vars

-----------------------------------------------------------------------------
(* A ModelProvider used without the server (model.py) *)

\* config["providers"]: an entry may name its base provider under
\* "provider_name"; one that does not is its own base provider.
ProviderTable ==
    [openai_gpt4 |-> [provider_name |-> "openai", model |-> "gpt-4"],
     anthropic   |-> [model |-> "claude-3"],
     local       |-> [provider_name |-> "ollama", model |-> "llama3"],
     cohere      |-> [model |-> "command"]]

\* The names a caller may ask for; "gemini_pro" is in no configuration here.
ProviderNames == DOMAIN ProviderTable \cup {"gemini_pro"}

\* The API keys the environment may hold.
Envs == SUBSET {"OPENAI_API_KEY", "ANTHROPIC_API_KEY"}

\* The branches of the dispatch; _load_cohere has none.
Supported == {"openai", "anthropic", "gemini", "ollama"}

\* os.getenv(...) of the loaders; _load_ollama reads no key.
KeyOf(actual_provider) ==
    CASE actual_provider = "openai" -> {"OPENAI_API_KEY"}
      [] actual_provider = "anthropic" -> {"ANTHROPIC_API_KEY"}
      [] actual_provider = "gemini" -> {"GEMINI_API_KEY"}
      [] OTHER -> {}

LoadRaises(actual_provider, env) == ~(KeyOf(actual_provider) \subseteq env)

\* What a loader returns.
Load(actual_provider, provider_config) ==
    [provider |-> actual_provider, model |-> provider_config.model]

\* The call that has raised: the object as it stands then.
Raised(object) == [object |-> object, raised |-> TRUE, returned |-> NoModel]

\* self.current_provider assigned as soon as the name is found in the
\* configuration, in front of the dispatch.
switch_providerNamesFirst(object, provider_name, env) ==
    IF provider_name \notin DOMAIN ProviderTable THEN Raised(object)
    ELSE LET provider_config == ProviderTable[provider_name]
             actual_provider == Get(provider_config, "provider_name", provider_name)
             named == [object EXCEPT !.current_provider = provider_name]
         IN  IF actual_provider \notin Supported \/ LoadRaises(actual_provider, env)
             THEN Raised(named)
             ELSE LET loaded == [named EXCEPT
                                   !.current_model = Load(actual_provider, provider_config)]
                  IN  [object |-> loaded, raised |-> FALSE,
                       returned |-> loaded.current_model]

\* ModelProvider.switch_provider, statement by statement: the lookup, the
\* dispatch whose loader returns before self.current_model is assigned, then
\* self.current_provider, then the return of self.current_model.
switch_providerOf(object, provider_name, env) ==
    IF provider_name \notin DOMAIN ProviderTable THEN Raised(object)
    ELSE LET provider_config == ProviderTable[provider_name]
             actual_provider == Get(provider_config, "provider_name", provider_name)
         IN  IF actual_provider \notin Supported \/ LoadRaises(actual_provider, env)
             THEN Raised(object)
             ELSE LET loaded == [object EXCEPT
                                   !.current_model = Load(actual_provider, provider_config)]
                      named == [loaded EXCEPT !.current_provider = provider_name]
                  IN  [object |-> named, raised |-> FALSE,
                       returned |-> named.current_model]

\* One call of switch_provider. The first is the one __init__ makes with the
\* default provider; when it raises there is no object to call again.
SwitchProvider(provider_name, env) ==
    /\ Len(model_provider.switches) < MaxSwitches
    /\ model_provider.switches # <<>> => model_provider.current_provider # "None"
    /\ LET call == switch_providerOf(model_provider, provider_name, env)
       IN  model_provider' =
               [call.object EXCEPT
                   !.switches = Append(@, [provider_name |-> provider_name, env |-> env,
                                           raised |-> call.raised,
                                           returned |-> call.returned])]
    /\ UNCHANGED <<surface, config, rewrites, instance, crawler, data_dir,
                   chroma_db, rag_chains, chat_histories, inits, asks, client>>

NextProvider ==
    \E provider_name \in ProviderNames, env \in Envs : SwitchProvider(provider_name, env)

SpecProvider == Init /\ [][NextProvider]_vars

-----------------------------------------------------------------------------
(* The crawler (web_crawler.py) *)

\* A URL is the sequence of its parts, so that a prefix of the string is a
\* prefix of the sequence. Three pages of one site and a page of another.
Home == <<"site">>
Docs == <<"site", "docs">>
Faq == <<"site", "docs", "faq">>
Elsewhere == <<"other">>

Urls == {Home, Docs, Faq, Elsewhere}

\* The roots a crawl is started from.
Roots == {Home, Docs}

\* urljoin(current_url, href) of the <a href> of each page, in document
\* order: links back, to itself, twice to the same page, and off the site.
Links ==
    [url \in Urls |->
        CASE url = Home -> <<Docs, Elsewhere, Faq, Docs>>
          [] url = Docs -> <<Home, Faq, Docs>>
          [] url = Faq -> <<Docs, Elsewhere>>
          [] OTHER -> <<Home>>]

\* requests.get raised: there is no response.
NoResponse == 0

\* What a fetch comes to: a status code, or no response.
FetchOutcomes == {200, 404, NoResponse}

\* full_url.startswith(root_url)
startswith(full_url, root_url) ==
    /\ Len(full_url) >= Len(root_url)
    /\ SubSeq(full_url, 1, Len(root_url)) = root_url

\* The test of line 35 without its first half.
WantedAnywhere(full_url, root_url, visited) == full_url \notin visited

\* if full_url.startswith(root_url) and full_url not in visited
Wanted(full_url, root_url, visited) ==
    startswith(full_url, root_url) /\ full_url \notin visited

\* A URL whose fetch did not return 200 put back at the end of the queue.
AfterFailureRetries(to_visit, current_url) == Append(to_visit, current_url)

\* `continue` at line 22, and the except clause: the URL is dropped from the
\* queue and not marked visited.
AfterFailure(to_visit, current_url) == to_visit

\* get_all_pages(root_url, max_pages) up to the loop.
CrawlStart(root_url, max_pages) ==
    /\ crawler.pc = "idle"
    /\ crawler' = [pc |-> "crawling", root_url |-> root_url, max_pages |-> max_pages,
                   visited |-> {}, to_visit |-> <<root_url>>, all_pages |-> <<>>,
                   fetched |-> {}]
    /\ UNCHANGED <<surface, config, rewrites, instance, model_provider, data_dir,
                   chroma_db, rag_chains, chat_histories, inits, asks, client>>

Crawling ==
    /\ crawler.pc = "crawling"
    /\ crawler.to_visit # <<>>
    /\ Len(crawler.all_pages) < crawler.max_pages

\* One turn of the loop on a URL already visited.
CrawlSkip ==
    /\ Crawling
    /\ Head(crawler.to_visit) \in crawler.visited
    /\ crawler' = [crawler EXCEPT !.to_visit = Tail(@)]
    /\ UNCHANGED <<surface, config, rewrites, instance, model_provider, data_dir,
                   chroma_db, rag_chains, chat_histories, inits, asks, client>>

\* One turn of the loop that fetches. With status 200 the page is recorded
\* and its first n links are looked at; n short of all of them is an
\* exception in the middle of the for loop, which the except clause swallows.
CrawlFetch(outcome, n) ==
    /\ Crawling
    /\ LET current_url == Head(crawler.to_visit)
           to_visit == Tail(crawler.to_visit)
           visited == crawler.visited \cup {current_url}
           links == SubSeq(Links[current_url], 1, n)
       IN  /\ current_url \notin crawler.visited
           /\ n \in 0..Len(Links[current_url])
           /\ outcome # 200 => n = 0
           /\ crawler' =
                 IF outcome = 200
                 THEN [crawler EXCEPT
                         !.visited = visited,
                         !.all_pages = Append(@, current_url),
                         !.to_visit = to_visit \o
                             SelectSeq(links,
                                       LAMBDA u : Wanted(u, crawler.root_url, visited)),
                         !.fetched = @ \cup {<<current_url, outcome>>}]
                 ELSE [crawler EXCEPT
                         !.to_visit = AfterFailure(to_visit, current_url),
                         !.fetched = @ \cup {<<current_url, outcome>>}]
    /\ UNCHANGED <<surface, config, rewrites, instance, model_provider, data_dir,
                   chroma_db, rag_chains, chat_histories, inits, asks, client>>

\* The loop condition fails: return all_pages.
CrawlReturn ==
    /\ crawler.pc = "crawling"
    /\ ~Crawling
    /\ crawler' = [crawler EXCEPT !.pc = "done"]
    /\ UNCHANGED <<surface, config, rewrites, instance, model_provider, data_dir,
                   chroma_db, rag_chains, chat_histories, inits, asks, client>>

\* The call once made runs on: a turn of the loop, or the return.
Crawl ==
    \/ CrawlSkip
    \/ \E outcome \in FetchOutcomes, n \in 0..Cardinality(Urls) : CrawlFetch(outcome, n)
    \/ CrawlReturn

NextCrawl ==
    \/ \E root_url \in Roots, max_pages \in 0..MaxPages : CrawlStart(root_url, max_pages)
    \/ Crawl

SpecCrawl == Init /\ [][NextCrawl]_vars

\* get_all_pages is straight-line code around one loop: a call that can take
\* a step takes it.
SpecCrawlLive == Init /\ [][NextCrawl]_vars /\ WF_vars(Crawl)

-----------------------------------------------------------------------------
(* The Streamlit client (streamlit_app.py, streamlit_app_v2.py) *)

\* requests form-encodes data={"chat_history": [dict, ...]}: urlencode with
\* doseq iterates each dict, so every message travels as its two keys.
FormEncode(history) ==
    Flatten([k \in DOMAIN history |-> <<"role", "content">>])

\* response.iter_lines() hands over the body line by line and
\* st.write_stream joins what generate_answer yields.
ResponseText(out) == SelectSeq(Flatten(out), LAMBDA p : p # "\n")

\* initialize_chain(file) of the client: the upload, then the session id of a
\* 200 answer kept in st.session_state.
ClientUpload(file, fault) ==
    /\ client.pc = "idle"
    /\ initialize_chain(file, fault, {})
    /\ client' = IF inits'[Len(inits')].status = 200
                 THEN [client EXCEPT !.session_id = inits'[Len(inits')].returned]
                 ELSE client
    /\ UNCHANGED asks

Turns(history) == Len(SelectSeq(history, LAMBDA m : m.role = "user"))

\* generate_answer up to the end of requests.post: the question joins the
\* client's history first, and the request carries that history. When
\* requests raises instead (`reaches` false: no server, a timeout), the
\* script run ends there.
ClientAsk(question, reaches) ==
    LET history == Append(client.chat_history, user(<<question>>)) IN
    /\ client.pc = "idle"
    /\ client.session_id # NoSessionId
    /\ asks' = IF reaches
               THEN Append(asks, NewAsk(client.session_id, question, FormEncode(history),
                                        SessionKnown(client.session_id)))
               ELSE asks
    /\ client' = [client EXCEPT !.chat_history = history,
                                !.pc = IF reaches THEN "streaming" ELSE "idle",
                                !.ask = IF reaches THEN Len(asks) + 1 ELSE @]
    /\ UNCHANGED <<surface, config, rewrites, library, data_dir, chroma_db, rag_chains, chat_histories, inits>>

\* The connection drops while the body is read, or the user's next
\* interaction reruns the script: the run ends before line 106.
ClientFault ==
    /\ client.pc = "streaming"
    /\ client' = [client EXCEPT !.pc = "idle"]
    /\ UNCHANGED <<surface, config, rewrites, library, data_dir, chroma_db, rag_chains, chat_histories, inits, asks>>

\* The response is read to its end; line 106 appends what write_stream returned.
ClientReceive ==
    /\ client.pc = "streaming"
    /\ asks[client.ask].pc \in {"completed", "failed", "rejected"}
    /\ client' = [client EXCEPT
                    !.chat_history =
                        Append(@, assistant(IF asks[client.ask].status = 200
                                            THEN ResponseText(asks[client.ask].out)
                                            ELSE <<>>)),
                    !.pc = "idle"]
    /\ UNCHANGED <<surface, config, rewrites, library, data_dir, chroma_db, rag_chains, chat_histories, inits, asks>>

-----------------------------------------------------------------------------
(* RAGChain used directly (generate.py, as its __main__ block does) *)

\* What the language model may answer to the contextualize prompt.
LLMOutputs == Questions \cup {"standalone"}

\* RAGChain.contextualize_question: prompt | llm | StrOutputParser, invoked
\* with self.chat_history whatever its length; the result is the model's text.
contextualize_question(chain, user_input, llm_output) == llm_output

\* RAGChain.update_chat_history
update_chat_history(chain, user_input, model_response) ==
    [chain EXCEPT !.chat_history =
        @ \o <<user(<<user_input>>), assistant(<<model_response>>)>>]

\* The rewrite that also files the question in the chain's history.
ContextualizeQuestionRecords(s, user_input, llm_output) ==
    /\ s \in DOMAIN rag_chains
    /\ rewrites' = Append(rewrites,
                      [sid |-> s, user_input |-> user_input,
                       chat_history |-> rag_chains[s].chat_history,
                       result |-> contextualize_question(rag_chains[s], user_input,
                                                         llm_output),
                       raised |-> FALSE])
    /\ rag_chains' = [rag_chains EXCEPT
                        ![s].chat_history = Append(@, user(<<user_input>>))]
    /\ UNCHANGED <<surface, config, library, data_dir, chroma_db, chat_histories,
                   inits, asks, client>>

ContextualizeQuestion(s, user_input, llm_output) ==
    /\ s \in DOMAIN rag_chains
    /\ rewrites' = Append(rewrites,
                      [sid |-> s, user_input |-> user_input,
                       chat_history |-> rag_chains[s].chat_history,
                       result |-> contextualize_question(rag_chains[s], user_input,
                                                         llm_output),
                       raised |-> FALSE])
    /\ UNCHANGED <<surface, config, library, data_dir, chroma_db, rag_chains, chat_histories,
                   inits, asks, client>>

\* contextualize_chain.invoke(...) raises: the model call failed, and the
\* exception leaves contextualize_question.
ContextualizeFault(s, user_input, e) ==
    /\ s \in DOMAIN rag_chains
    /\ rewrites' = Append(rewrites,
                      [sid |-> s, user_input |-> user_input,
                       chat_history |-> rag_chains[s].chat_history,
                       result |-> e, raised |-> TRUE])
    /\ UNCHANGED <<surface, config, library, data_dir, chroma_db, rag_chains, chat_histories,
                   inits, asks, client>>

UpdateChatHistory(s, user_input, model_response) ==
    /\ s \in DOMAIN rag_chains
    /\ rag_chains' = [rag_chains EXCEPT
                        ![s] = update_chat_history(@, user_input, model_response)]
    /\ UNCHANGED <<surface, config, rewrites, library, data_dir, chroma_db, chat_histories,
                   inits, asks, client>>

-----------------------------------------------------------------------------
(* The server with its callers *)

AskFiles == {"a.pdf"}
AskFaults == {"none", "embed"}

Initialize ==
    \E file \in AskFiles, fault \in AskFaults :
        /\ Len(inits) < MaxSessions
        /\ InitializeRequest(file, fault, {})

Ask(n) ==
    \E sid \in 1..(MaxSessions + 1), question \in Questions, chat_history \in CallerHistories :
        /\ Len(asks) < n
        /\ stream_response(sid, question, chat_history)

Stream ==
    \/ \E i \in DOMAIN asks : GenBuild(i)
    \/ \E i \in DOMAIN asks : GenRewrite(i)
    \/ \E i \in DOMAIN asks : GenRetrieve(i)
    \/ \E i \in DOMAIN asks, chunk \in ChainChunks : GenChunk(i, chunk)
    \/ \E i \in DOMAIN asks : GenEnd(i)
    \/ \E i \in DOMAIN asks, e \in Errors : GenFault(i, e)

\* One /stream/ request, any caller.
Next ==
    \/ Initialize
    \/ Ask(MaxAsks)
    \/ Stream

Spec == Init /\ [][Next]_vars

\* Several /stream/ requests, which may overlap.
NextSeries ==
    \/ Initialize
    \/ Ask(MaxSeries)
    \/ Stream

SpecSeries == Init /\ [][NextSeries]_vars

\* The Streamlit client as the only caller.
NextClient ==
    \/ \E file \in AskFiles, fault \in AskFaults :
          Len(inits) < MaxSessions /\ ClientUpload(file, fault)
    \/ \E question \in Questions, reaches \in BOOLEAN :
          Turns(client.chat_history) < MaxSeries /\ ClientAsk(question, reaches)
    \/ ClientFault
    \/ ClientReceive
    \/ Stream

SpecClient == Init /\ [][NextClient]_vars

\* One /stream/ request followed to its end. The server keeps pulling the
\* generator of a response it has started, and the chain's stream ends or
\* faults: the steps of Stream are taken as long as one is possible.
AskAlone ==
    /\ asks = <<>>
    /\ \E sid \in 1..(MaxSessions + 1), question \in Questions,
          chat_history \in CallerHistories :
          stream_response(sid, question, chat_history)

NextLive ==
    \/ Initialize
    \/ AskAlone
    \/ Stream

SpecLive == Init /\ [][NextLive]_vars /\ WF_vars(Stream)

\* One /stream/ request whose fragment sequence is read a second time.
NextConsume ==
    \/ Initialize
    \/ AskAlone
    \/ Stream
    \/ \E i \in DOMAIN asks : Reconsume(i)

SpecConsume == Init /\ [][NextConsume]_vars

\* The request threads of the server: app_fastapi.py runs a handler without
\* a suspension point from start to end on its event loop; flask_api.py's
\* threaded server may switch threads between two statements of a handler.
NextThreads ==
    \/ \E file \in AskFiles, fault \in AskFaults :
          /\ Len(inits) < MaxSessions
          /\ surface = "flask" => fault # "none"
          /\ InitializeRequest(file, fault, {})
    \/ \E file \in AskFiles : Len(inits) < MaxSessions /\ StoreChain(file)
    \/ StoreHistory
    \/ AskAlone
    \/ Stream

SpecThreads == Init /\ [][NextThreads]_vars

\* Several sessions created, and one /stream/ request among them.
NextTable ==
    \/ \E file \in AskFiles, fault \in AskFaults :
          Len(inits) < MaxInits /\ InitializeRequest(file, fault, {})
    \/ AskAlone
    \/ Stream

SpecTable == Init /\ [][NextTable]_vars

\* A chain and the direct calls of its methods.
NextChain ==
    \/ Initialize
    \/ \E s \in DOMAIN rag_chains, user_input \in Questions, llm_output \in LLMOutputs :
          Len(rewrites) < MaxRewrites /\ ContextualizeQuestion(s, user_input, llm_output)
    \/ \E s \in DOMAIN rag_chains, user_input \in Questions, model_response \in Fragments :
          /\ Len(rag_chains[s].chat_history) < 2 * MaxTurns
          /\ UpdateChatHistory(s, user_input, model_response)

SpecChain == Init /\ [][NextChain]_vars

\* The rewriter both ways: called directly, once, on a chain whose history
\* may hold a turn, and run inside the chain of one /stream/ request.
NextRewriter ==
    \/ Initialize
    \/ \E s \in DOMAIN rag_chains :
          /\ rag_chains[s].chat_history = <<>>
          /\ UpdateChatHistory(s, "q1", "a")
    \/ \E s \in DOMAIN rag_chains, user_input \in Questions, llm_output \in LLMOutputs :
          rewrites = <<>> /\ ContextualizeQuestion(s, user_input, llm_output)
    \/ \E s \in DOMAIN rag_chains, user_input \in Questions, e \in Errors :
          rewrites = <<>> /\ ContextualizeFault(s, user_input, e)
    \/ AskAlone
    \/ Stream

SpecRewriter == Init /\ [][NextRewriter]_vars

-----------------------------------------------------------------------------
(* Vocabulary of the properties *)

IsSentinel(fragment) == fragment # <<>> /\ Head(fragment) = "Error: "

Carries(fragment, e) == \E k \in DOMAIN fragment : fragment[k] = e

\* The fragments the chunks of a chain stream turn into, in order.
Lines(chunks) == [k \in DOMAIN chunks |-> Line(Get(chunks[k], "answer", ""))]

\* The answer of an ask: its answer fragments, concatenated in order.
AnswerText(ask) ==
    Concat([k \in DOMAIN ask.chunks |-> Get(ask.chunks[k], "answer", "")])

TurnOf(ask) == <<user(<<ask.question>>), assistant(AnswerText(ask))>>

\* The turns of the completed asks of session s among the first n asks.
RECURSIVE TurnsOf(_, _)
TurnsOf(s, n) ==
    IF n = 0 THEN <<>>
    ELSE TurnsOf(s, n - 1) \o
         (IF asks[n].sid = s /\ asks[n].pc = "completed" THEN TurnOf(asks[n]) ELSE <<>>)

\* The characters of the first n chunk texts.
RECURSIVE LengthUpTo(_, _)
LengthUpTo(documents, n) ==
    IF n = 0 THEN 0 ELSE LengthUpTo(documents, n - 1) + Len(documents[n].page_content)

\* The gaps between n chunks.
Separators(n) == IF n = 0 THEN 0 ELSE n - 1

Alternating(history) ==
    /\ Len(history) % 2 = 0
    /\ \A k \in DOMAIN history :
          history[k].role = IF k % 2 = 1 THEN "user" ELSE "assistant"

\* A string in the chat_history placeholder counts as a human message.
AsMessages(values) == [k \in DOMAIN values |-> user(<<values[k]>>)]

\* The asks whose rewrite step has run.
Rewritten(ask) ==
    \/ ask.pc \in {"retrieving", "generating", "completed"}
    \/ ask.pc = "failed" /\ ask.failed_in \in {"retrieving", "generating"}

UploadOf(s) == inits[CHOOSE i \in DOMAIN inits : inits[i].returned = s].file

OwnChunks(file) == split_documents(load_documents({file}))

\* The fault a failed ask's last fragment describes.
ErrorOf(ask) == CHOOSE e \in Errors : Carries(ask.out[Len(ask.out)], e)

StatusClass(status) == status \div 100

\* What surface s answers to the request of `ask` when the collaborators
\* behave as they did for it: the same lookup result, chunks and fault.
ResponseOn(s, ask) ==
    [status |-> IF ask.pc = "rejected" THEN NotFoundStatus(s) ELSE 200,
     body |-> ask.body,
     out |-> IF ask.pc = "failed"
             THEN Lines(ask.chunks) \o <<ErrorFragment(s, ErrorOf(ask))>>
             ELSE Lines(ask.chunks)]

\* IDLE -> REWRITING -> RETRIEVING -> GENERATING -> {COMPLETED | FAILED}, a
\* fault leaving any of the phases.
PhaseEdges ==
    {<<"start", "rewriting">>, <<"rewriting", "retrieving">>,
     <<"retrieving", "generating">>, <<"generating", "completed">>}
    \cup {<<phase, "failed">> : phase \in Phases}

\* The three ways an ask ends for its caller.
CleanStream(ask) ==
    /\ ask.pc = "completed"
    /\ ask.body = "stream"
    /\ \A k \in DOMAIN ask.out : ~IsSentinel(ask.out[k])

ErrorStream(ask) ==
    /\ ask.pc = "failed"
    /\ ask.body = "stream"
    /\ ask.out # <<>>
    /\ IsSentinel(ask.out[Len(ask.out)])

UpfrontError(ask) ==
    /\ ask.pc = "rejected"
    /\ ask.body = "error"
    /\ ask.out = <<>>

HasOutcome(ask) == CleanStream(ask) \/ ErrorStream(ask) \/ UpfrontError(ask)

-----------------------------------------------------------------------------
(* Properties *)

\* C1: once every ask made on a session has completed normally, the
\* session's server-side history (chat_histories[sid] and the chain's
\* chat_history) holds exactly the (user, assistant) pairs of those N asks in
\* the order the asks were made, so its length is 2N.
C1_HistoryHoldsEveryTurn ==
    \A s \in DOMAIN chat_histories :
        (\A i \in DOMAIN asks : asks[i].sid = s => asks[i].pc = "completed")
        => /\ chat_histories[s] = TurnsOf(s, Len(asks))
           /\ rag_chains[s].chat_history = TurnsOf(s, Len(asks))

\* C2: the retriever bound to a session reaches exactly the chunks of the
\* corpus uploaded for that session, whatever other sessions uploaded.
C2_RetrieverScopedToOwnCorpus ==
    \A s \in DOMAIN rag_chains :
        Retrievable(rag_chains[s]) = OwnChunks(UploadOf(s))

\* C3: an ask whose stream faulted after j chunks returned the j fragments of
\* those chunks in order and then one last fragment that starts with
\* "Error: " and carries the fault's description; the response is still the
\* stream, and no sentinel stands anywhere but last. An ask that did not
\* fault holds no sentinel.
C3_FaultEndsWithSentinel ==
    \A i \in DOMAIN asks :
        IF asks[i].pc = "failed"
        THEN /\ asks[i].body = "stream"
             /\ Len(asks[i].out) = Len(asks[i].chunks) + 1
             /\ SubSeq(asks[i].out, 1, Len(asks[i].chunks)) = Lines(asks[i].chunks)
             /\ IsSentinel(asks[i].out[Len(asks[i].out)])
             /\ \E e \in Errors : Carries(asks[i].out[Len(asks[i].out)], e)
        ELSE /\ asks[i].out = Lines(asks[i].chunks)
             /\ \A k \in DOMAIN asks[i].out : ~IsSentinel(asks[i].out[k])

C3_Witness ==
    \E i \in DOMAIN asks :
        /\ asks[i].pc = "failed"
        /\ asks[i].failed_in = "generating"
        /\ Len(asks[i].chunks) = 2
        /\ \E k \in DOMAIN asks[i].chunks : "answer" \in DOMAIN asks[i].chunks[k]

C5_UnknownSessionRejected ==
    \A i \in DOMAIN asks :
        asks[i].sid \notin DOMAIN rag_chains
        => /\ asks[i].pc = "rejected"
           /\ asks[i].body = "error"
           /\ asks[i].out = <<>>
           /\ asks[i].chunks = <<>>
           /\ asks[i].calls = {}

C5_Witness ==
    /\ DOMAIN rag_chains # {}
    /\ \E i \in DOMAIN asks :
          asks[i].sid \notin DOMAIN rag_chains /\ asks[i].pc = "rejected"

\* C6: the history the question rewriter is given on an ask is the session's
\* own stored history, never a value the caller of the request put in.
C6_RewriterGetsStoredHistory ==
    \A i \in DOMAIN asks :
        Rewritten(asks[i])
        => AsMessages(asks[i].chat_history) = chat_histories[asks[i].sid]

\* C7: after an /initialize/ request that failed at any step, the id it had
\* generated is in neither rag_chains nor chat_histories, and the caller was
\* given no session id.
C7_FailedInitBindsNothing ==
    \A i \in DOMAIN inits :
        inits[i].status # 200
        => /\ inits[i].returned = NoSessionId
           /\ inits[i].session_id \notin DOMAIN rag_chains
           /\ inits[i].session_id \notin DOMAIN chat_histories

C7_Witness ==
    \E i \in DOMAIN inits :
        /\ inits[i].status = 500
        /\ inits[i].stage = "switch_provider"
        /\ OwnChunks(inits[i].file) \subseteq chroma_db
        /\ OwnChunks(inits[i].file) # {}
        /\ inits[i].session_id \notin DOMAIN rag_chains

\* C8: no session is created from an upload that yields no chunk: such an
\* /initialize/ fails and returns no session id.
C8_NoSessionOverEmptyCorpus ==
    \A i \in DOMAIN inits :
        OwnChunks(inits[i].file) = {}
        => inits[i].status # 200 /\ inits[i].returned = NoSessionId

\* C9: the turns of asks that were in flight together on one session are in
\* that session's history in the order the asks were issued.
C9_OverlappingTurnsInIssueOrder ==
    \A j \in DOMAIN asks :
        \A i \in asks[j].concurrent :
            (asks[i].pc = "completed" /\ asks[j].pc = "completed"
             /\ \A k \in DOMAIN asks : asks[k].sid = asks[j].sid => asks[k].pc = "completed")
            => chat_histories[asks[j].sid] = TurnsOf(asks[j].sid, Len(asks))

\* C10: between turns every history is made of (user, assistant) pairs: no
\* user entry without its assistant entry is left for a later rewrite, also
\* after a turn that failed.
C10_HistoryPaired ==
    /\ \A s \in DOMAIN chat_histories : Alternating(chat_histories[s])
    /\ \A s \in DOMAIN rag_chains : Alternating(rag_chains[s].chat_history)
    /\ client.pc = "idle" => Alternating(client.chat_history)

\* C11: once the client has read the stream of a completed ask to its end,
\* the session's history ends with one user turn holding the question and one
\* assistant turn holding the yielded fragments concatenated in order.
C11_ConsumedAskAddsTurn ==
    (/\ client.pc = "idle"
     /\ client.ask # 0
     /\ asks[client.ask].pc = "completed"
     /\ client.chat_history # <<>>
     /\ client.chat_history[Len(client.chat_history)].role = "assistant")
    => LET history == chat_histories[asks[client.ask].sid] IN
       /\ Len(history) >= 2
       /\ SubSeq(history, Len(history) - 1, Len(history)) = TurnOf(asks[client.ask])

\* C12: with an empty history the question rewriter returns the question it
\* was given, whatever the language model answers.
C12_EmptyHistoryPassThrough ==
    \A k \in DOMAIN rewrites :
        rewrites[k].chat_history = <<>> => rewrites[k].result = rewrites[k].user_input

\* C13: on both surfaces an ask with an unknown session id is answered with
\* a 4xx status and an error object, never with 200.
C13_UnknownSessionIs4xx ==
    \A i \in DOMAIN asks :
        asks[i].pc = "rejected"
        => asks[i].status \in 400..499 /\ asks[i].body = "error"

\* C14: /initialize/ answers 200 with a session id exactly when the session
\* was created, and 400 both when no file was given and when a step of the
\* session's creation failed.
C14_InitializeStatus ==
    \A i \in DOMAIN inits :
        IF inits[i].stage = "none"
        THEN inits[i].status = 200 /\ inits[i].returned # NoSessionId
        ELSE inits[i].status = 400 /\ inits[i].returned = NoSessionId

\* C15: the body of a stream that ended normally is the answer fragments in
\* emission order, each followed by one newline, and nothing else: a chunk
\* without an answer fragment adds no line.
C15_BodyIsAnswerLines ==
    \A i \in DOMAIN asks :
        asks[i].pc = "completed"
        => asks[i].out = Lines(SelectSeq(asks[i].chunks,
                                         LAMBDA chunk : "answer" \in DOMAIN chunk))

\* C16: for every ask that has ended, either surface answers the same request
\* under the same collaborator behaviour with the same status class and the
\* same body, the framing of the error sentinel included.
C16_SurfacesEquivalent ==
    \A i \in DOMAIN asks :
        asks[i].pc \in {"completed", "failed", "rejected"}
        => \A s \in Surfaces :
              /\ StatusClass(ResponseOn(s, asks[i]).status) = StatusClass(asks[i].status)
              /\ ResponseOn(s, asks[i]).body = asks[i].body
              /\ ResponseOn(s, asks[i]).out = asks[i].out

\* C17: an ask that is no longer in progress has ended as a clean stream, as
\* a stream whose last fragment is the error marker, or as an upfront error
\* without a stream; and every ask that was issued eventually ends so.
C17_EveryAskEnds ==
    /\ [](asks # <<>> /\ asks[1].pc \notin Phases => HasOutcome(asks[1]))
    /\ (asks # <<>>) ~> (asks # <<>> /\ HasOutcome(asks[1]))

C17_Witness ==
    /\ asks # <<>>
    /\ CleanStream(asks[1])
    /\ Len(asks[1].out) = MaxChunks
    /\ asks[1].calls = {"rewrite", "retrieve", "generate"}

\* C18: every step of an ask follows IDLE, REWRITING, RETRIEVING, GENERATING,
\* then COMPLETED or FAILED; the retriever has been called only once the
\* rewrite (or the empty-history pass-through) is over, and the generation
\* only after the retriever has returned.
C18_PhasesInOrder ==
    /\ [][\A i \in DOMAIN asks :
             \/ asks'[i].pc = asks[i].pc
             \/ <<asks[i].pc, asks'[i].pc>> \in PhaseEdges]_vars
    /\ [](\A i \in DOMAIN asks :
             /\ "rewrite" \in asks[i].calls => asks[i].pc \notin {"start", "rewriting"}
             /\ "retrieve" \in asks[i].calls
                => /\ asks[i].pc \in {"generating", "completed", "failed"}
                   /\ asks[i].pc = "failed" => asks[i].failed_in \in {"retrieving", "generating"}
                   /\ asks[i].chat_history # <<>> => "rewrite" \in asks[i].calls
             /\ "generate" \in asks[i].calls
                => /\ "retrieve" \in asks[i].calls
                   /\ asks[i].pc \in {"generating", "completed", "failed"}
                   /\ asks[i].pc = "failed" => asks[i].failed_in = "generating")

C18_Witness ==
    \E i \in DOMAIN asks :
        /\ asks[i].pc = "completed"
        /\ asks[i].chat_history # <<>>
        /\ asks[i].docs # {}
        /\ asks[i].calls = {"rewrite", "retrieve", "generate"}
        /\ \E k \in DOMAIN asks[i].chunks : "answer" \in DOMAIN asks[i].chunks[k]

\* C21: no rewrite changes a history: a step in which contextualize_question
\* returns or raises, or in which an ask's chain is built or its rewrite
\* runs or fails, leaves every chain's chat_history and every entry of
\* chat_histories as it was.
C21_RewriterLeavesHistory ==
    [][(\/ rewrites' # rewrites
        \/ \E i \in DOMAIN asks :
              asks[i].pc \in {"start", "rewriting"} /\ asks'[i] # asks[i])
       => /\ chat_histories' = chat_histories
          /\ \A s \in DOMAIN rag_chains :
                rag_chains'[s].chat_history = rag_chains[s].chat_history]_vars

C21_Witness ==
    /\ \E k \in DOMAIN rewrites :
          rewrites[k].raised /\ rewrites[k].chat_history # <<>>
    /\ \E i \in DOMAIN asks :
          /\ "rewrite" \in asks[i].calls
          /\ asks[i].pc = "failed"
          /\ asks[i].failed_in = "rewriting"
          /\ rag_chains[asks[i].sid].chat_history # <<>>

\* C22: the fragment sequence of a response is consumed once: after it has
\* ended, with the last answer fragment or with the error sentinel, a further
\* pass over it yields no fragment and calls no collaborator, and nothing is
\* yielded or called from then on.
C22_SingleConsumer ==
    [][\A i \in DOMAIN asks :
          (asks[i].pc \in Ended \/ asks[i].reread)
          => /\ asks'[i].out = asks[i].out
             /\ asks'[i].chunks = asks[i].chunks
             /\ asks'[i].calls = asks[i].calls
             /\ asks'[i].pc = asks[i].pc]_vars

C22_Witness ==
    \E i \in DOMAIN asks :
        /\ asks[i].reread
        /\ asks[i].pc = "failed"
        /\ asks[i].failed_in = "generating"
        /\ Len(asks[i].out) > 1
        /\ IsSentinel(asks[i].out[Len(asks[i].out)])

\* C23: a call of contextualize_question, run_with_chat_history or run on an
\* instance whose initialize_chain() has not succeeded raises ValueError and
\* invokes no collaborator.
C23_UninitializedRaisesValueError ==
    \A k \in DOMAIN instance.calls :
        ~instance.calls[k].initialized
        => /\ instance.calls[k].outcome = "ValueError"
           /\ instance.calls[k].invoked = {}

\* C24: the context run() builds from a retrieval result is the chunk texts
\* in ranked order with exactly one space between consecutive ones, nothing in
\* front of the first and nothing behind the last; no chunk gives the empty
\* string.
C24_ContextIsSpaceJoined ==
    \A k \in DOMAIN instance.calls :
        LET call == instance.calls[k]
            text(j) == call.documents[j].page_content
            n == Len(call.documents)
        IN  (call.method = "run" /\ call.outcome = "returns")
            => /\ Len(call.context) = LengthUpTo(call.documents, n) + Separators(n)
               /\ \A j \in 1..n :
                     LET from == LengthUpTo(call.documents, j - 1) + (j - 1)
                     IN  /\ SubSeq(call.context, from + 1, from + Len(text(j))) = text(j)
                         /\ j < n => call.context[from + Len(text(j)) + 1] = " "

C24_Witness ==
    \E k \in DOMAIN instance.calls, j \in DOMAIN instance.calls :
        /\ instance.calls[k].method = "run"
        /\ instance.calls[k].outcome = "returns"
        /\ Len(instance.calls[k].documents) = MaxDocs
        /\ instance.calls[j].method = "run"
        /\ instance.calls[j].outcome = "returns"
        /\ instance.calls[j].documents = <<>>
        /\ instance.calls[j].context = <<>>

\* C25: in every state, those a /stream/ request sees while an /initialize/
\* is under way included, rag_chains and chat_histories have the same keys and
\* the history kept for a session is the empty list.
C25_TablesAgree ==
    /\ DOMAIN rag_chains = DOMAIN chat_histories
    /\ \A s \in DOMAIN chat_histories : chat_histories[s] = <<>>

\* C26: a call of switch_provider that raises leaves current_provider and
\* current_model as they were; one that returns leaves current_provider the
\* requested name and current_model the model it returned.
C26_SwitchAllOrNothing ==
    [][Len(model_provider'.switches) > Len(model_provider.switches)
       => LET call == model_provider'.switches[Len(model_provider'.switches)]
          IN  /\ call.raised
                 => /\ model_provider'.current_provider = model_provider.current_provider
                    /\ model_provider'.current_model = model_provider.current_model
              /\ ~call.raised
                 => /\ model_provider'.current_provider = call.provider_name
                    /\ model_provider'.current_model = call.returned
                    /\ call.returned # NoModel]_vars

C26_Witness ==
    \E k \in DOMAIN model_provider.switches :
        /\ k > 1
        /\ ~model_provider.switches[k - 1].raised
        /\ model_provider.switches[k].raised
        /\ model_provider.switches[k].provider_name \in DOMAIN ProviderTable
        /\ model_provider.switches[k].provider_name
              # model_provider.switches[k - 1].provider_name
        /\ model_provider.current_provider = model_provider.switches[k - 1].provider_name
        /\ model_provider.current_model = model_provider.switches[k - 1].returned

\* C27: at every moment of a crawl and in its result, all_pages holds no URL
\* twice, at most max_pages URLs, only URLs whose fetch returned 200, and only
\* URLs that start with root_url.
C27_CrawlResultSound ==
    crawler.pc # "idle"
    => /\ \A i, j \in DOMAIN crawler.all_pages :
             crawler.all_pages[i] = crawler.all_pages[j] => i = j
       /\ Len(crawler.all_pages) <= crawler.max_pages
       /\ \A i \in DOMAIN crawler.all_pages :
             /\ <<crawler.all_pages[i], 200>> \in crawler.fetched
             /\ startswith(crawler.all_pages[i], crawler.root_url)

C27_Witness ==
    /\ crawler.pc = "done"
    /\ crawler.root_url = Home
    /\ Len(crawler.all_pages) = MaxPages
    /\ crawler.to_visit # <<>>
    /\ \E u \in Urls : <<u, 404>> \in crawler.fetched

\* C28: a crawl that has started returns, also when URLs of the site fail or
\* answer with another status than 200 every time and so are never marked
\* visited.
C28_CrawlTerminates == (crawler.pc = "crawling") ~> (crawler.pc = "done")

C28_Witness ==
    /\ crawler.pc = "done"
    /\ crawler.to_visit = <<>>
    /\ Len(crawler.all_pages) < crawler.max_pages
    /\ \E u \in Urls :
          /\ u \notin crawler.visited
          /\ <<u, 404>> \in crawler.fetched
          /\ <<u, NoResponse>> \in crawler.fetched

\* C19: the language model of every session is the model of the provider the
\* configuration names as `default_provider`, for every valid configuration.
C19_LlmIsDefaultProvider ==
    \A s \in DOMAIN rag_chains :
        rag_chains[s].llm = switch_provider(config, config.default_provider)

\* C20: no step removes or rebinds an entry of the session table, and an
\* /initialize/ that succeeds adds exactly one entry, under an id that was in
\* neither table before; every other step leaves the tables as they are.
C20_SessionTableOnlyGrows ==
    [][/\ \A s \in DOMAIN rag_chains :
              s \in DOMAIN rag_chains' /\ rag_chains'[s] = rag_chains[s]
       /\ \A s \in DOMAIN chat_histories : s \in DOMAIN chat_histories'
       /\ IF Len(inits') > Len(inits) /\ inits'[Len(inits')].status = 200
          THEN LET sid == inits'[Len(inits')].returned IN
               /\ sid \notin DOMAIN rag_chains \cup DOMAIN chat_histories
               /\ DOMAIN rag_chains' = DOMAIN rag_chains \cup {sid}
               /\ DOMAIN chat_histories' = DOMAIN chat_histories \cup {sid}
          ELSE /\ DOMAIN rag_chains' = DOMAIN rag_chains
               /\ DOMAIN chat_histories' = DOMAIN chat_histories]_vars

C20_Witness ==
    /\ \E s, t \in DOMAIN rag_chains : s # t
    /\ \E i \in DOMAIN asks :
          asks[i].pc = "completed" /\ asks[i].sid \in DOMAIN rag_chains

====
